---- MODULE Spec2Model ----
(***************************************************************************)
(* A model of the teaching scripts of OPUG-Beginner-Python:                *)
(*   - tipstricks.py   memoization() / grab_data   (memo table)            *)
(*   - tipstricks.py   use_pooling() / random_wait (Pool(5).map)           *)
(*   - classdemo.py    ClassRoom (addStudent, gradeClass)                  *)
(*   - classdemo.py    Student.grade (the property and its setter)         *)
(*   - with_statement.py  FileWriterClass and file_writer_cmanager         *)
(* Each script is an independent program, so each has its own              *)
(* specification over the shared variable list; the variables of the other *)
(* scripts stay at their initial values.                                   *)
(***************************************************************************)
EXTENDS Integers, Sequences, FiniteSets

None == "None"

\* ---- tipstricks.py: memoization() ----
VARIABLES
    memo_table,     \* the dict memo_table: a function from the stored keys to ints
    gpc,            \* where the current grab_data call stands: "idle" | "sleep"
    gkey,           \* the key of the call in progress (None when idle)
    tableBefore,    \* history: memo_table as it was when the last call started
    computeCount,   \* history: per key, how often randint's value was stored
    firstValue,     \* history: key -> the value its first returning lookup gave
    lastLookup,     \* history: [key, outcome, value] of the last finished call
                    \*   (value is <<v>> for a return, <<>> for an exception)
    lookups         \* number of grab_data calls started

memoVars == <<memo_table, gpc, gkey, tableBefore, computeCount, firstValue,
              lastLookup, lookups>>

\* ---- tipstricks.py: use_pooling() ----
VARIABLES
    ppc,            \* pooled(): "start" | "map" | "returned" | "raised"
    taskq,          \* the pool's task queue: task indices not yet fetched
    running,        \* the tasks the worker processes are running, one per busy
                    \*   worker (the processes are interchangeable: which of them
                    \*   runs a task is not recorded)
    value,          \* MapResult._value: one cell per input
    success,        \* MapResult._success
    perr,           \* the exception MapResult holds: <<the input whose call raised>>
    numberLeft,     \* MapResult._number_left
    ready,          \* MapResult._event is set
    invoked,        \* history: per task, how often random_wait was called on it
    anyFailed,      \* history: some call of random_wait raised
    firstFailed,    \* history: <<the input of the first call that raised>>
    overtaken       \* history: some task finished while an earlier one still ran

poolVars == <<ppc, taskq, running, value, success, perr, numberLeft,
              ready, invoked, anyFailed, firstFailed, overtaken>>

\* ---- classdemo.py ----
VARIABLES
    students,       \* ClassRoom._students: the list held by the class itself
    roomName,       \* the ClassRoom instances made so far: instance -> self.name
    addCalls,       \* history: the addStudent calls made, [room, student] each
    printed         \* what the last gradeClass call printed: <<>> before any
                    \*   call, else <<[room, header, lines]>>

roomVars == <<students, roomName, addCalls, printed>>

VARIABLES
    _grade,         \* per Student object: the value of self._grade
    gradeCalls      \* history: the assignments `student.grade = num` made,
                    \*   [student, num] each

gradeVars == <<_grade, gradeCalls>>

\* ---- with_statement.py ----
\* Each of the two context managers runs in an interpreter of its own; every
\* variable is indexed by the manager the interpreter's example uses.
VARIABLES
    bodies,         \* history: how the with body of each run so far ended,
                    \*   "print" (ran to its end) | "raise"
    wpc,            \* where the example function stands
    runs,           \* how many runs of the example were started
    sys_stdout,     \* sys.stdout: Console or a file object
    fileOpen,       \* the file objects open() has returned: number -> still open
    saved,          \* self.stdout / the generator's local stdout
    fout,           \* self.fout / the generator's local fout
    before,         \* history: sys.stdout when the with statement was reached
    console,        \* the lines printed to the console
    filetxt         \* the lines written to FILENAME

withVars == <<bodies, wpc, runs, sys_stdout, fileOpen, saved, fout, before,
              console, filetxt>>

vars == <<memoVars, poolVars, roomVars, gradeVars, withVars>>

\* the frame of each script: the other scripts' variables
MemoOnly == UNCHANGED <<poolVars, roomVars, gradeVars, withVars>>
PoolOnly == UNCHANGED <<memoVars, roomVars, gradeVars, withVars>>
RoomOnly == UNCHANGED <<memoVars, poolVars, gradeVars, withVars>>
GradeOnly == UNCHANGED <<memoVars, poolVars, roomVars, withVars>>
WithOnly == UNCHANGED <<memoVars, poolVars, roomVars, gradeVars>>

(***************************************************************************)
(* tipstricks.py: memoization()                                            *)
(***************************************************************************)
\* randint(0, 100)
RandLo == 0
RandHi == 100
RandInts == RandLo..RandHi

\* the keys the demo requests
Keys == {"a", "b"}

\* how many grab_data calls a run makes
MaxLookups == 3

InitMemo ==
    /\ memo_table = <<>>
    /\ gpc = "idle"
    /\ gkey = None
    /\ tableBefore = <<>>
    /\ computeCount = [k \in Keys |-> 0]
    /\ firstValue = <<>>
    /\ lastLookup = [key |-> None, outcome |-> None, value |-> <<>>]
    /\ lookups = 0

\* a lookup that recomputes whatever the table holds
NeverInTable(key) == FALSE

\* `key not in memo_table`, negated
InTable(key) == key \in DOMAIN memo_table

\* memo_table[key] = value
Store(table, key, v) ==
    [k \in DOMAIN table \cup {key} |-> IF k = key THEN v ELSE table[k]]

\* `return memo_table[key]`: the call ends and hands the stored value back
Return(key) ==
    /\ gpc' = "idle"
    /\ gkey' = None
    /\ lastLookup' = [key |-> key, outcome |-> "returned",
                       value |-> <<memo_table'[key]>>]
    /\ firstValue' = IF key \in DOMAIN firstValue
                       THEN firstValue
                       ELSE Store(firstValue, key, memo_table'[key])

\* an exception leaves grab_data: nothing after the raising statement runs
Raise(key) ==
    /\ gpc' = "idle"
    /\ gkey' = None
    /\ lastLookup' = [key |-> key, outcome |-> "raised", value |-> <<>>]
    /\ UNCHANGED firstValue

\* grab_data(key) with the key present: the if is skipped
GrabDataHit(key) ==
    /\ MemoOnly
    /\ gpc = "idle"
    /\ lookups < MaxLookups
    /\ InTable(key)
    /\ lookups' = lookups + 1
    /\ tableBefore' = memo_table
    /\ UNCHANGED <<memo_table, computeCount>>
    /\ Return(key)

\* grab_data(key) with the key absent: the value is drawn and stored, then
\* the call sleeps
GrabDataMiss(key) ==
    /\ MemoOnly
    /\ gpc = "idle"
    /\ lookups < MaxLookups
    /\ ~InTable(key)
    /\ lookups' = lookups + 1
    /\ tableBefore' = memo_table
    /\ \E v \in RandInts : memo_table' = Store(memo_table, key, v)
    /\ computeCount' = [computeCount EXCEPT ![key] = @ + 1]
    /\ gpc' = "sleep"
    /\ gkey' = key
    /\ UNCHANGED <<firstValue, lastLookup>>

\* grab_data(key) with the key absent, interrupted before the assignment
\* statement has stored anything
GrabDataMissRaise(key) ==
    /\ MemoOnly
    /\ gpc = "idle"
    /\ lookups < MaxLookups
    /\ ~InTable(key)
    /\ lookups' = lookups + 1
    /\ tableBefore' = memo_table
    /\ UNCHANGED <<memo_table, computeCount>>
    /\ Raise(key)

\* sleep(2) ends and the call returns memo_table[key]
SleepReturn ==
    /\ MemoOnly
    /\ gpc = "sleep"
    /\ UNCHANGED <<memo_table, computeCount, tableBefore, lookups>>
    /\ Return(gkey)

\* sleep(2) is interrupted (KeyboardInterrupt, a raising signal handler): the
\* exception leaves grab_data, after the store
SleepRaise ==
    /\ MemoOnly
    /\ gpc = "sleep"
    /\ UNCHANGED <<memo_table, computeCount, tableBefore, lookups>>
    /\ Raise(gkey)

NextMemo ==
    \/ \E key \in Keys : GrabDataHit(key)
    \/ \E key \in Keys : GrabDataMiss(key)
    \/ \E key \in Keys : GrabDataMissRaise(key)
    \/ SleepReturn
    \/ SleepRaise

\* C1 (compute-once): for every key the value is computed and stored at most
\* once, and every lookup that returns gives the value the first returning
\* lookup of that key gave.
ComputeOnce ==
    /\ \A k \in Keys : computeCount[k] <= 1
    /\ lastLookup.outcome = "returned"
          => lastLookup.value = <<firstValue[lastLookup.key]>>

\* a key looked up a second time, after its first lookup returned, by a call
\* that found it in the table
ComputeOnceWitness ==
    /\ lastLookup.outcome = "returned"
    /\ gpc = "idle"
    /\ InTable(lastLookup.key)
    /\ computeCount[lastLookup.key] = 1
    /\ tableBefore = memo_table
    /\ lookups >= 2

\* C2 (failure atomicity): whenever a lookup of a missing key ends with an
\* exception, the memo table is exactly as it was before the call, with no
\* entry for that key (so that a later lookup computes the value again).
FailureAtomicity ==
    lastLookup.outcome = "raised"
        => /\ memo_table = tableBefore
           /\ lastLookup.key \notin DOMAIN memo_table

(***************************************************************************)
(* tipstricks.py: use_pooling()                                            *)
(*                                                                         *)
(*     with Pool(5) as pool:                                               *)
(*         pool.map(random_wait, range(10))                                *)
(*                                                                         *)
(* Pool(5) starts five worker processes that each loop: fetch the next     *)
(* task from the shared task queue, run it, send the result back.  map     *)
(* cuts the ten inputs into chunks of divmod(10, 5 * 4) -> 1 input each,   *)
(* queues them in input order and blocks until its MapResult is ready;     *)
(* leaving the with block terminates the pool.                             *)
(***************************************************************************)
\* Pool(5)
PoolSize == 5
\* range(10)
NumInputs == 10

\* "no input": the placeholder cells of the result list come from none, and
\* no exception is held; an input val is recorded as <<val>>
NoInput == <<>>

\* range(10), as the list map makes of it; task i carries inputs[i]
inputs == [i \in 1..NumInputs |-> i - 1]

Tasks == 1..Len(inputs)

\* a cell of the result list: the value and, as history, the input it came from
Cell(ret, src) == [ret |-> ret, src |-> src]

\* random_wait(val) prints val and returns None
random_wait(val) == Cell(None, <<val>>)

InitPool ==
    /\ ppc = "start"
    /\ taskq = <<>>
    /\ running = {}
    /\ value = <<>>
    /\ success = TRUE
    /\ perr = NoInput
    /\ numberLeft = 0
    /\ ready = FALSE
    /\ invoked = [i \in Tasks |-> 0]
    /\ anyFailed = FALSE
    /\ firstFailed = NoInput
    /\ overtaken = FALSE

\* Pool(5) is created and map submits the batch: the tasks are queued in input
\* order, the result list holds one placeholder per input
PoolMap ==
    /\ ppc = "start"
    /\ ppc' = "map"
    /\ running' = {}
    /\ taskq' = [i \in Tasks |-> i]
    /\ value' = [i \in Tasks |-> Cell(None, NoInput)]
    /\ numberLeft' = Len(inputs)
    /\ ready' = (Len(inputs) = 0)
    /\ UNCHANGED <<success, perr, invoked, anyFailed, firstFailed, overtaken>>
    /\ PoolOnly

\* a pool in which a task is handed out although every process is busy
IdleWorkerOffByOne == Cardinality(running) <= PoolSize

\* one of the PoolSize worker processes of Pool(5) is not running a task
IdleWorker == Cardinality(running) < PoolSize

\* a queue whose get leaves the task in it
PeekOnly(q) == q

\* the task queue after a worker's get
AfterGet(q) == Tail(q)

\* an idle worker fetches the task at the head of the queue and calls
\* random_wait on its input
WorkerGet ==
    /\ ppc = "map"
    /\ IdleWorker
    /\ taskq # <<>>
    /\ running' = running \cup {Head(taskq)}
    /\ taskq' = AfterGet(taskq)
    /\ invoked' = [invoked EXCEPT ![Head(taskq)] = @ + 1]
    /\ UNCHANGED <<ppc, value, success, perr, numberLeft, ready,
                   anyFailed, firstFailed, overtaken>>
    /\ PoolOnly

\* a result list filled in the order the tasks complete
SlotByCompletion(i) == Len(inputs) - numberLeft + 1

\* _value[i*chunksize:(i+1)*chunksize] = result, chunksize 1: the cell of task i
Slot(i) == i

\* a result that is ready as soon as the queue is empty
QueueEmpty(left) == taskq = <<>>

\* `if self._number_left == 0`: every task has reported
AllReported(left) == left = 0

\* MapResult._set(i, (True, result))
SetSuccess(i) ==
    /\ numberLeft' = numberLeft - 1
    /\ value' = IF success
                  THEN [value EXCEPT ![Slot(i)] = random_wait(inputs[i])]
                  ELSE value
    /\ ready' = AllReported(numberLeft')
    /\ UNCHANGED <<success, perr>>

\* a failed call whose exception is dropped: recorded like a call that returned
SetFailureSwallowed(i) == SetSuccess(i)

\* MapResult._set(i, (False, exception)): the first exception replaces the
\* result list; the result is ready when every task has reported
SetFailure(i) ==
    /\ numberLeft' = numberLeft - 1
    /\ success' = FALSE
    /\ perr' = IF success THEN <<inputs[i]>> ELSE perr
    /\ value' = <<>>
    /\ ready' = AllReported(numberLeft')

\* random_wait returns in the worker running task i: the sleep is over and
\* the value printed; the result is sent back and stored
WorkerDone(i) ==
    /\ ppc = "map"
    /\ i \in running
    /\ SetSuccess(i)
    /\ running' = running \ {i}
    /\ overtaken' = (overtaken \/ \E j \in running : j < i)
    /\ UNCHANGED <<ppc, taskq, invoked, anyFailed, firstFailed>>
    /\ PoolOnly

\* random_wait raises in the worker running task i; the worker catches the
\* exception, sends it back as the task's result and goes on
WorkerRaise(i) ==
    /\ ppc = "map"
    /\ i \in running
    /\ SetFailure(i)
    /\ running' = running \ {i}
    /\ overtaken' = (overtaken \/ \E j \in running : j < i)
    /\ anyFailed' = TRUE
    /\ firstFailed' = IF anyFailed THEN firstFailed ELSE <<inputs[i]>>
    /\ UNCHANGED <<ppc, taskq, invoked>>
    /\ PoolOnly

\* map returns the result list; the with block ends and terminates the pool
MapReturn ==
    /\ ppc = "map"
    /\ ready
    /\ success
    /\ ppc' = "returned"
    /\ UNCHANGED <<taskq, running, value, success, perr, numberLeft,
                   ready, invoked, anyFailed, firstFailed, overtaken>>
    /\ PoolOnly

\* map re-raises the stored exception; it leaves the with block, whose exit
\* terminates the pool, and then pooled(), timeit and use_pooling.  taskq and
\* running keep what was outstanding when the pool was torn down.
MapRaise ==
    /\ ppc = "map"
    /\ ready
    /\ ~success
    /\ ppc' = "raised"
    /\ UNCHANGED <<taskq, running, value, success, perr, numberLeft,
                   ready, invoked, anyFailed, firstFailed, overtaken>>
    /\ PoolOnly

NextPool ==
    \/ PoolMap
    \/ WorkerGet
    \/ \E i \in Tasks : WorkerDone(i)
    \/ \E i \in Tasks : WorkerRaise(i)
    \/ MapReturn
    \/ MapRaise

\* the pooled run has ended: map returned or raised and the pool is torn down
Ended == ppc \in {"returned", "raised"}

\* the inputs no worker has fetched yet
Unclaimed == {i \in Tasks : invoked[i] = 0}

\* every input has been run and has reported: none is queued or executing
AllTerminal ==
    /\ taskq = <<>>
    /\ running = {}
    /\ \A i \in Tasks : invoked[i] >= 1

\* C3 (concurrency bound): at every instant of the pooled run the number of
\* calls of random_wait in progress is at most the pool size.
ConcurrencyBound == Cardinality(running) <= PoolSize

\* steady state: every worker is busy while inputs are still queued
ConcurrencyBoundWitness ==
    /\ ppc = "map"
    /\ Cardinality(running) = PoolSize
    /\ taskq # <<>>

\* C4 (order preservation): the result list never holds, in cell i, anything
\* but the output of random_wait(inputs[i]), and the list map returns has one
\* cell per input, each holding that output, whatever the completion order.
OrderPreservation ==
    /\ success /\ ppc # "start" =>
          /\ Len(value) = Len(inputs)
          /\ \A i \in Tasks :
                value[i] \in {Cell(None, NoInput), random_wait(inputs[i])}
    /\ ppc = "returned" =>
          \A i \in Tasks : value[i] = random_wait(inputs[i])

\* map has returned after a run in which a task finished before an earlier one
OrderPreservationWitness ==
    /\ ppc = "returned"
    /\ overtaken
    /\ Len(value) = NumInputs

\* C5 (completion before return): under fair scheduling the pooled run ends,
\* and whenever it has ended every input has been run and has reported; none is
\* still queued or executing.
CompletionBeforeReturn ==
    /\ <>Ended
    /\ [](Ended => AllTerminal)

\* the run has ended with every input run
CompletionBeforeReturnWitness ==
    /\ Ended
    /\ AllTerminal
    /\ numberLeft = 0

\* C6 (task failure is propagated): once a call of random_wait has raised, the
\* pooled run ends by raising the first such failure to its caller, and it
\* never returns normally.
TaskFailurePropagated ==
    /\ anyFailed ~> (ppc = "raised" /\ perr = firstFailed)
    /\ [](ppc = "returned" => ~anyFailed)

\* the caller has received the failure of an input
TaskFailurePropagatedWitness ==
    /\ ppc = "raised"
    /\ anyFailed
    /\ perr = firstFailed
    /\ \E i \in Tasks : perr = <<inputs[i]>>

\* C7 (disjoint claiming): no input is ever run more than once, a fetch always
\* takes exactly the first input not yet fetched, a fetch is possible whenever
\* a worker is idle and an input is unfetched, and when the run has ended every
\* input has been run exactly once.
DisjointClaiming ==
    /\ [](\A i \in Tasks : invoked[i] <= 1)
    /\ [](Ended => \A i \in Tasks : invoked[i] = 1)
    /\ [](ppc = "map" /\ Cardinality(running) < PoolSize /\ Unclaimed # {}
              => ENABLED WorkerGet)
    /\ [][invoked' # invoked =>
             /\ Unclaimed # {}
             /\ \A j \in Unclaimed :
                  IF \A k \in Unclaimed : j <= k
                    THEN invoked'[j] = 1 /\ j \in running' /\ j \notin running
                    ELSE invoked'[j] = 0]_vars

\* a worker that finished one input has fetched the next unclaimed one: an
\* input beyond the first PoolSize is running while all workers are busy
DisjointClaimingWitness ==
    /\ ppc = "map"
    /\ Cardinality(running) = PoolSize
    /\ (PoolSize + 1) \in running
    /\ \A i \in Tasks : invoked[i] <= 1

(***************************************************************************)
(* classdemo.py: Person, Student, ClassRoom                                *)
(***************************************************************************)
\* how many ClassRoom instances are made, how many addStudent calls
MaxRooms == 2
MaxAdds == 3

\* the objects of the demo and their classes
Objects == {"me", "matt", "cindy"}
ClassOf(obj) == IF obj = "me" THEN "Person" ELSE "Student"

\* class Person(), class Student(Person): a class, then its bases; of the
\* built-in types, bool is a subclass of int
Mro(cls) ==
    CASE cls = "Student" -> {"Student", "Person", "object"}
      [] cls = "Person" -> {"Person", "object"}
      [] cls = "bool" -> {"bool", "int", "object"}
      [] cls = "int" -> {"int", "object"}
      [] OTHER -> {cls, "object"}

\* isinstance(obj, cls)
IsInstance(obj, cls) == cls \in Mro(ClassOf(obj))

\* a check against the base class
AdmitsAnyPerson(student) == IsInstance(student, "Person")

\* `if isinstance(student, Student)`
Admits(student) == IsInstance(student, "Student")

\* ---- Student.grade ----
\* how many assignments `student.grade = num` are made
MaxAssigns == 3

\* the objects that have the grade property
StudentObjects == {obj \in Objects : IsInstance(obj, "Student")}

\* a Python value is <<the name of its type, its payload>>; the payload of an
\* int is the number, of a bool the number it equals (True == 1)
PyNone == <<"NoneType", None>>
PyInt(n) == <<"int", n>>
PyTrue == <<"bool", 1>>
PyFalse == <<"bool", 0>>
PyStr(str) == <<"str", str>>
TypeOf(val) == val[1]
NumOf(val) == val[2]

\* the ints assigned: both sides of every threshold of the getter, zero and
\* a negative number
IntGrades == {-5, 0, 64, 65, 69, 70, 79, 80, 89, 90}

\* the values assigned: ints, the two bools, and the demo's 'fish'
GradeInputs == {PyInt(n) : n \in IntGrades} \cup {PyTrue, PyFalse, PyStr("fish")}

\* isinstance(num, int)
IsInt(num) == "int" \in Mro(TypeOf(num))

\* the setter's `if isinstance(num, int)`
Accepts(num) == IsInt(num)

\* bool(val): None is false, a number is false when it is zero, a string
\* when it is empty
Truth(val) ==
    CASE val = PyNone -> FALSE
      [] IsInt(val) -> NumOf(val) # 0
      [] OTHER -> NumOf(val) # ""

\* _grade = None in the class body: what every Student starts with
InitGrade ==
    /\ _grade = [student \in StudentObjects |-> PyNone]
    /\ gradeCalls = <<>>

\* the property grade: student.grade
grade(student) ==
    LET g == _grade[student] IN
    IF ~Truth(g) THEN None
    ELSE IF NumOf(g) > 89 THEN "A"
    ELSE IF 89 >= NumOf(g) /\ NumOf(g) > 79 THEN "B"
    ELSE IF 79 >= NumOf(g) /\ NumOf(g) > 69 THEN "C"
    ELSE IF 69 >= NumOf(g) /\ NumOf(g) > 64 THEN "D"
    ELSE "F"

\* the setter: student.grade = num ('Requires an int' is printed otherwise)
gradeSetter(student, num) ==
    /\ Len(gradeCalls) < MaxAssigns
    /\ _grade' = IF Accepts(num)
                   THEN [_grade EXCEPT ![student] = num]
                   ELSE _grade
    /\ gradeCalls' = Append(gradeCalls, [student |-> student, num |-> num])
    /\ GradeOnly

NextGrade ==
    \E student \in StudentObjects, num \in GradeInputs : gradeSetter(student, num)

\* the assignments of an int made to the student's grade so far, in order
IntAssigned(call) == IsInt(call.num)
IntAssigns(student) ==
    LET Mine(call) == call.student = student /\ IntAssigned(call)
    IN  SelectSeq(gradeCalls, Mine)

\* the letter the claim gives an int grade
Letter(n) ==
    IF n > 89 THEN "A"
    ELSE IF n \in 80..89 THEN "B"
    ELSE IF n \in 70..79 THEN "C"
    ELSE IF n \in 65..69 THEN "D"
    ELSE "F"

\* C12 (Student.grade round trip): after any sequence of grade assignments,
\* a student who was never assigned an int has no stored grade and the getter
\* returns None; otherwise the stored grade is the last int assigned (the
\* non-int assignments changed nothing) and the getter returns that int's
\* letter: 'A' above 89, 'B' for 80..89, 'C' for 70..79, 'D' for 65..69 and
\* 'F' for every other int, so never None.
GradeRoundTrip ==
    \A student \in StudentObjects :
        LET ints == IntAssigns(student) IN
        IF ints = <<>>
          THEN _grade[student] = PyNone /\ grade(student) = None
          ELSE /\ _grade[student] = ints[Len(ints)].num
               /\ grade(student) = Letter(NumOf(ints[Len(ints)].num))

\* ---- ClassRoom ----
RoomNames == {"CSC100", "CSC101"}
RoomIds == 1..MaxRooms

\* self._students: no instance ever assigns the attribute, so the lookup
\* falls through to the class attribute
StudentsOf(room) == students

InitRoom ==
    /\ students = <<>>
    /\ roomName = <<>>
    /\ addCalls = <<>>
    /\ printed = <<>>

\* ClassRoom(name): __init__ sets self.name
ClassRoomInit(name) ==
    /\ Len(roomName) < MaxRooms
    /\ roomName' = Append(roomName, name)
    /\ UNCHANGED <<students, addCalls, printed>>
    /\ RoomOnly

\* room.addStudent(student)
addStudent(room, student) ==
    /\ room \in DOMAIN roomName
    /\ Len(addCalls) < MaxAdds
    /\ students' = IF Admits(student)
                     THEN Append(StudentsOf(room), student)
                     ELSE students
    /\ addCalls' = Append(addCalls, [room |-> room, student |-> student])
    /\ UNCHANGED <<roomName, printed>>
    /\ RoomOnly

\* what a gradeClass run over the given list prints: the header, then one
\* line per student of the list with the student's letter grade
GradeLines(list) == [i \in DOMAIN list |-> <<list[i], grade(list[i])>>]

\* room.gradeClass()
gradeClass(room) ==
    /\ room \in DOMAIN roomName
    /\ printed' = << [room |-> room,
                      header |-> <<"Grades for", roomName[room]>>,
                      lines |-> GradeLines(StudentsOf(room))] >>
    /\ UNCHANGED <<students, roomName, addCalls>>
    /\ RoomOnly

NextRoom ==
    \/ \E name \in RoomNames : ClassRoomInit(name)
    \/ \E room \in RoomIds, student \in Objects : addStudent(room, student)
    \/ \E room \in RoomIds : gradeClass(room)

\* the arguments of the addStudent calls made so far, in call order
AddArgs == [i \in DOMAIN addCalls |-> addCalls[i].student]

IsStudent(obj) == ClassOf(obj) = "Student"

\* C8 (addStudent admits only Students): after any sequence of addStudent
\* calls the student list holds exactly the arguments that were Student
\* instances, in call order; calls with a non-Student left it unchanged.  The
\* list is the one list of the class, so the calls are those on any instance.
AdmitsOnlyStudents == students = SelectSeq(AddArgs, IsStudent)

\* the demo's calls: a Person, then two Students, and two of three were added
AdmitsOnlyStudentsWitness ==
    /\ Len(addCalls) = 3
    /\ addCalls[1].student = "me"
    /\ students = <<"matt", "cindy">>

\* the students some addStudent call on the room was given
AddedTo(room) ==
    {addCalls[i].student : i \in {j \in DOMAIN addCalls : addCalls[j].room = room}}

\* the students in the room's student list
Listed(room) == {StudentsOf(room)[i] : i \in DOMAIN StudentsOf(room)}

\* the students on the lines the last gradeClass call of the room printed
Graded(room) ==
    UNION { {printed[i].lines[k][1] : k \in DOMAIN printed[i].lines} :
            i \in {j \in DOMAIN printed : printed[j].room = room} }

\* C11 (student storage is owned per ClassRoom instance): for any two distinct
\* ClassRoom instances, a student added to one and not to the other appears
\* neither in the other's student list nor in what the other's gradeClass
\* printed.
PerInstanceStorage ==
    \A one \in DOMAIN roomName, other \in DOMAIN roomName :
        one # other =>
            \A student \in AddedTo(one) \ AddedTo(other) :
                /\ student \notin Listed(other)
                /\ student \notin Graded(other)

(***************************************************************************)
(* with_statement.py: FileWriterClass and file_writer_cmanager, as used by *)
(* example_file_writer_class and example_file_writer_cmanager:             *)
(*                                                                         *)
(*     print('Goes to console')                                            *)
(*     with <manager>(FILENAME):                                           *)
(*         print('Now into file')                                          *)
(*     print('Back to console')                                            *)
(***************************************************************************)
\* how often each example is run in one interpreter session
MaxRuns == 2

Impls == {"FileWriterClass", "file_writer_cmanager"}

\* streams: the console, and the file objects open() returns, numbered in the
\* order of the calls; NoStream stands for a name not yet assigned
Console == <<"console", 0>>
File(h) == <<"file", h>>
NoStream == <<"unset", 0>>

\* the file object fout is still open
IsOpen(w) == fileOpen[w][fout[w][2]]

InitWith ==
    /\ bodies = [w \in Impls |-> <<>>]
    /\ wpc = [w \in Impls |-> "idle"]
    /\ runs = [w \in Impls |-> 0]
    /\ sys_stdout = [w \in Impls |-> Console]
    /\ fileOpen = [w \in Impls |-> <<>>]
    /\ saved = [w \in Impls |-> NoStream]
    /\ fout = [w \in Impls |-> NoStream]
    /\ before = [w \in Impls |-> Console]
    /\ console = [w \in Impls |-> <<>>]
    /\ filetxt = [w \in Impls |-> <<>>]

\* print(line): the line goes where sys.stdout points
print(w, line) ==
    IF sys_stdout[w] = Console
      THEN /\ console' = [console EXCEPT ![w] = Append(@, line)]
           /\ UNCHANGED filetxt
      ELSE /\ filetxt' = [filetxt EXCEPT ![w] = Append(@, line)]
           /\ UNCHANGED console

\* the example function is called: print('Goes to console'), which leads to
\* the with statement
ExampleStart(w) ==
    /\ wpc[w] = "idle"
    /\ runs[w] < MaxRuns
    /\ runs' = [runs EXCEPT ![w] = @ + 1]
    /\ print(w, "Goes to console")
    /\ before' = [before EXCEPT ![w] = sys_stdout[w]]
    /\ wpc' = [wpc EXCEPT ![w] = "with"]
    /\ UNCHANGED <<bodies, sys_stdout, fileOpen, saved, fout>>
    /\ WithOnly

\* FileWriterClass.__init__: keep sys.stdout, open the file
FileWriterClassInit(w) ==
    /\ saved' = [saved EXCEPT ![w] = sys_stdout[w]]
    /\ fileOpen' = [fileOpen EXCEPT ![w] = Append(@, TRUE)]
    /\ fout' = [fout EXCEPT ![w] = File(Len(fileOpen[w]) + 1)]
    /\ UNCHANGED sys_stdout

\* file_writer_cmanager(file_name): the call makes the generator's context
\* manager; no line of the function body has run yet
CManagerCall(w) ==
    UNCHANGED <<saved, fileOpen, fout, sys_stdout>>

\* the with statement evaluates its context expression
WithConstruct(w) ==
    /\ wpc[w] = "with"
    /\ IF w = "FileWriterClass" THEN FileWriterClassInit(w) ELSE CManagerCall(w)
    /\ wpc' = [wpc EXCEPT ![w] = "enter"]
    /\ UNCHANGED <<bodies, runs, before, console, filetxt>>
    /\ WithOnly

\* FileWriterClass.__enter__
FileWriterClassEnter(w) ==
    /\ sys_stdout' = [sys_stdout EXCEPT ![w] = fout[w]]
    /\ UNCHANGED <<saved, fileOpen, fout>>

\* file_writer_cmanager up to its yield
CManagerToYield(w) ==
    /\ saved' = [saved EXCEPT ![w] = sys_stdout[w]]
    /\ fileOpen' = [fileOpen EXCEPT ![w] = Append(@, TRUE)]
    /\ fout' = [fout EXCEPT ![w] = File(Len(fileOpen[w]) + 1)]
    /\ sys_stdout' = [sys_stdout EXCEPT ![w] = fout'[w]]

\* the with statement calls __enter__ and starts the body
WithEnter(w) ==
    /\ wpc[w] = "enter"
    /\ IF w = "FileWriterClass" THEN FileWriterClassEnter(w) ELSE CManagerToYield(w)
    /\ wpc' = [wpc EXCEPT ![w] = "body"]
    /\ UNCHANGED <<bodies, runs, before, console, filetxt>>
    /\ WithOnly

\* the body runs to its end: print('Now into file')
BodyPrint(w) ==
    /\ wpc[w] = "body"
    /\ bodies' = [bodies EXCEPT ![w] = Append(@, "print")]
    /\ print(w, "Now into file")
    /\ wpc' = [wpc EXCEPT ![w] = "exit"]
    /\ UNCHANGED <<runs, sys_stdout, fileOpen, saved, fout, before>>
    /\ WithOnly

\* the body raises an exception
BodyRaise(w) ==
    /\ wpc[w] = "body"
    /\ bodies' = [bodies EXCEPT ![w] = Append(@, "raise")]
    /\ wpc' = [wpc EXCEPT ![w] = "exit_exc"]
    /\ UNCHANGED <<runs, sys_stdout, fileOpen, saved, fout, before,
                   console, filetxt>>
    /\ WithOnly

\* FileWriterClass.__exit__(*_): close the file, restore sys.stdout; it
\* returns None, so an exception of the body goes on to the caller
FileWriterClassExit(w) ==
    /\ fileOpen' = [fileOpen EXCEPT ![w][fout[w][2]] = FALSE]
    /\ sys_stdout' = [sys_stdout EXCEPT ![w] = saved[w]]
    /\ UNCHANGED <<saved, fout>>

\* file_writer_cmanager after its yield, when the body ended normally
CManagerAfterYield(w) ==
    /\ fileOpen' = [fileOpen EXCEPT ![w][fout[w][2]] = FALSE]
    /\ sys_stdout' = [sys_stdout EXCEPT ![w] = saved[w]]
    /\ UNCHANGED <<saved, fout>>

\* the body's exception is thrown into the generator at its yield, which is in
\* no try block: the generator ends there and the lines after the yield do
\* not run
CManagerThrow(w) ==
    UNCHANGED <<saved, fileOpen, fout, sys_stdout>>

\* the with statement calls __exit__ after a body that ended normally
WithExit(w) ==
    /\ wpc[w] = "exit"
    /\ IF w = "FileWriterClass" THEN FileWriterClassExit(w) ELSE CManagerAfterYield(w)
    /\ wpc' = [wpc EXCEPT ![w] = "left"]
    /\ UNCHANGED <<bodies, runs, before, console, filetxt>>
    /\ WithOnly

\* the with statement calls __exit__ with the body's exception
WithExitExc(w) ==
    /\ wpc[w] = "exit_exc"
    /\ IF w = "FileWriterClass" THEN FileWriterClassExit(w) ELSE CManagerThrow(w)
    /\ wpc' = [wpc EXCEPT ![w] = "left_exc"]
    /\ UNCHANGED <<bodies, runs, before, console, filetxt>>
    /\ WithOnly

\* after the block: print('Back to console'), and the example returns
ExampleEnd(w) ==
    /\ wpc[w] = "left"
    /\ print(w, "Back to console")
    /\ wpc' = [wpc EXCEPT ![w] = "idle"]
    /\ UNCHANGED <<bodies, runs, sys_stdout, fileOpen, saved, fout, before>>
    /\ WithOnly

\* the exception leaves the example function for the interactive session that
\* called it
ExampleRaise(w) ==
    /\ wpc[w] = "left_exc"
    /\ wpc' = [wpc EXCEPT ![w] = "idle"]
    /\ UNCHANGED <<bodies, runs, sys_stdout, fileOpen, saved, fout, before,
                   console, filetxt>>
    /\ WithOnly

NextWith ==
    \/ \E w \in Impls : ExampleStart(w)
    \/ \E w \in Impls : WithConstruct(w)
    \/ \E w \in Impls : WithEnter(w)
    \/ \E w \in Impls : BodyPrint(w)
    \/ \E w \in Impls : BodyRaise(w)
    \/ \E w \in Impls : WithExit(w)
    \/ \E w \in Impls : WithExitExc(w)
    \/ \E w \in Impls : ExampleEnd(w)
    \/ \E w \in Impls : ExampleRaise(w)

InBlock(w) == wpc[w] \in {"body", "exit", "exit_exc"}
LeftBlock(w) == wpc[w] \in {"left", "left_exc"}

\* C9 (file_writer_cmanager is functionally identical to FileWriterClass):
\* whenever the two examples stand at the same point of the same run after
\* bodies that ended the same way, inside the with block or after it,
\* sys.stdout points at the same stream in both and the same handles are open.
FunctionallyIdentical ==
    LET c == "FileWriterClass"
        m == "file_writer_cmanager"
    IN  (/\ wpc[c] = wpc[m]
         /\ runs[c] = runs[m]
         /\ bodies[c] = bodies[m]
         /\ InBlock(c) \/ LeftBlock(c))
            => /\ sys_stdout[c] = sys_stdout[m]
               /\ fileOpen[c] = fileOpen[m]

\* C10 (stdout redirection is always undone): with either manager, inside the
\* block sys.stdout is the open output file, and once the block is left,
\* normally or by an exception of the body, sys.stdout is the stream that was
\* current before the block and the file is closed.
RedirectionUndone ==
    \A w \in Impls :
        /\ InBlock(w) => sys_stdout[w] = fout[w] /\ IsOpen(w)
        /\ LeftBlock(w) => sys_stdout[w] = before[w] /\ ~IsOpen(w)

Init == InitMemo /\ InitPool /\ InitRoom /\ InitGrade /\ InitWith

SpecMemo == Init /\ [][NextMemo]_vars

SpecPool == Init /\ [][NextPool]_vars

\* the operating system schedules every process and thread of the run, and
\* sleep() ends: a step that stays possible is eventually taken
FairSpecPool == SpecPool /\ WF_vars(NextPool)

SpecRoom == Init /\ [][NextRoom]_vars

SpecGrade == Init /\ [][NextGrade]_vars

SpecWith == Init /\ [][NextWith]_vars
====
